---- MODULE Spec2Model ----
(***************************************************************************)
(* Model of src/firmware/velocidad.c: the control loop of main(), the      *)
(* Hall-sensor interrupt callback, the speed estimator, the potentiometer  *)
(* reader and the slew-limited motor command.                              *)
(*                                                                         *)
(* Real values (float in the source) are exact rationals [n, d] with       *)
(* d >= 0; d = 0 stands for +infinity, the result of 60.0 / 0.0.  Times    *)
(* are milliseconds since boot.  The thresholds the code compares against  *)
(* (0.2, 0.5) are never within single-precision rounding distance of a     *)
(* value raw * 20 / 4095, so the comparisons decide as in the source.      *)
(* The truncation of line 44 is the floor of the exact quotient except for *)
(* the six inputs of SingleBelow, whose single-precision value lies just   *)
(* below an exact duty level (raw samples 1365, 1911, 2730, 3822; elapsed  *)
(* times 4500, 5100, 9000, 10200 ms): there it is one lower.  This holds   *)
(* for every raw sample 0..4095 and every elapsed time 1..40000 ms.        *)
(***************************************************************************)
EXTENDS Integers, FiniteSets, Sequences, TLC

(* ---- program constants ---- *)
TARGET_SPEED == 20
PULSES_PER_REV == 3
MOTOR_MAX_DUTY_CYCLE == 255
duty_cycle_step == 20
ADC_FULL_SCALE == 4095
CALC_PAUSE_MS == 1000
MOTOR_PAUSE_MS == 1000
POT_PAUSE_MS == 1000
DRIFT_PAUSE_MS == 1000
DEBOUNCE_MS == 200
LOOP_PAUSE_MS == 100
MS_PER_SECOND == 1000
SECONDS_PER_MINUTE == 60
INT_MAX == 2147483647
INT_MIN == -INT_MAX - 1

(* ---- bounds of the model ---- *)
MaxPulses == 4
MaxCycles == 3
MaxSkew == 1
MaxEdges == 2

(* bounds of the runs that follow the estimator to its second sample *)
SamplePulses == 6
SampleCycles == 2

(* milliseconds since boot when main() reaches its loop: the time taken by *)
(* the runtime start-up and stdio_init_all() is not fixed by the source    *)
BootDelays == {0, 1500}

(* raw ADC samples offered to read_potentiometer in the control loop:      *)
(* both sides of the dead zone (40 | 41) and both sides of the drift       *)
(* threshold measured from a zero setpoint (102 | 103)                     *)
RawSamples == {40, 41, 102, 103}

(* inputs of the motor command taken alone: raw samples of the             *)
(* potentiometer and elapsed times of the estimator (0 ms gives +infinity, *)
(* 3000 ms gives exactly TARGET_SPEED, 1912500 ms gives 0.4 duty units)    *)
MotorRawSamples == {0, 40, 41, 103, 1365, 2048, 4094, 4095}
ElapsedSamples == {0, 1, 1500, 3000, 3100, 4500, 20000, 1912500}

(* ---- rationals ---- *)
Rat(n, d) == [n |-> n, d |-> d]
Zero == Rat(0, 1)
IsInf(x) == x.d = 0
Abs(i) == IF i < 0 THEN -i ELSE i
RLt(a, b) == a.n * b.d < b.n * a.d
REq(a, b) == a.n * b.d = b.n * a.d
RSub(a, b) == Rat(a.n * b.d - b.n * a.d, a.d * b.d)
fabs(x) == Rat(Abs(x.n), x.d)

POT_CHANGE_THRESHOLD == Rat(1, 2)
POT_DEAD_ZONE == Rat(1, 5)

VARIABLES
    pc,                    \* position of main()
    now,                   \* to_ms_since_boot(get_absolute_time())
    button_level,          \* gpio_get(BUTTON_PIN): TRUE = high = released
    pulse_count,
    last_pulse_time,
    speed,
    cruise_control_active,
    current_duty_cycle,
    last_pot_value,
    last_button_state,
    current_pot_value,     \* local of main()
    raw_value,             \* local of read_potentiometer: the last adc_read()
    observed,              \* value of pulse_count read by line 32
    target_speed,          \* argument of the last set_motor_speed call
    target_duty_cycle,     \* local of set_motor_speed
    cycles,                \* loop iterations started
    skew,                  \* clock advance beyond the sleeps
    delivered,             \* history: calls of sensor_callback
    consumed,              \* history: pulses the estimator read and reset
    speed_samples,         \* history: speed samples computed (line 35)
    held_samples,          \* history: consecutive samples of a pressed button
    press_toggles,         \* history: line-117 toggles during the current press
    button_toggles,        \* history: line-117 toggles in total
    last_edge_time,        \* history: time of the last accepted edge, -1 if none
    pending_edges,         \* history: falling edges of the pin since the sample of
                           \* line 115, -1 where the pin is not traced
    commands               \* history: calls of set_motor_speed

vars == <<pc, now, button_level, pulse_count, last_pulse_time, speed,
          cruise_control_active, current_duty_cycle, last_pot_value,
          last_button_state, current_pot_value, raw_value, observed, target_speed,
          target_duty_cycle, cycles, skew, delivered, consumed, speed_samples,
          held_samples, press_toggles, button_toggles, last_edge_time,
          pending_edges, commands>>

motor_vars == <<current_duty_cycle, target_speed, target_duty_cycle, commands>>
button_hist == <<held_samples, press_toggles, button_toggles, last_edge_time,
                 pending_edges>>
pulse_hist == <<delivered, consumed, speed_samples>>

(* ---- helpers translated from the source ---- *)

\* a pause that returns at once
sleep_none(t, ms) == t

\* a pause of a tenth of the time asked for
sleep_tenth(t, ms) == t + ms \div 10

\* sleep_ms(ms): the clock after the pause
sleep_ms(t, ms) == t + ms

\* the threshold taken as "some pulse arrived"
AnyPulse(count) == count >= 1

\* line 32: if (pulse_count >= PULSES_PER_REV)
ThresholdMet(count) == count >= PULSES_PER_REV

\* line 34: (current_time - last_pulse_time) / 1000.0
TimePerRev(current_time, last_time) == Rat(current_time - last_time, MS_PER_SECOND)

\* revolutions per second: the factor 60 forgotten
RevPerSecond(time_per_rev) == Rat(time_per_rev.d, time_per_rev.n)

\* line 35: 60.0 / time_per_rev; a zero divisor gives +infinity
Rpm(time_per_rev) == Rat(SECONDS_PER_MINUTE * time_per_rev.d, time_per_rev.n)

\* the scaling without the dead zone
read_scaled_only(raw) == Rat(raw * TARGET_SPEED, ADC_FULL_SCALE)

\* lines 69-74: scale the raw sample and apply the dead zone
read_potentiometer(raw) ==
    LET pot_value == Rat(raw * TARGET_SPEED, ADC_FULL_SCALE)
    IN  IF RLt(fabs(pot_value), POT_DEAD_ZONE) THEN Zero ELSE pot_value

\* an edge of either direction
AnyEdge(current_button_state, last_state) == current_button_state # last_state

\* the level alone, without the previous sample
LevelLow(current_button_state, last_state) == ~current_button_state

\* line 116: !current_button_state && last_button_state
FallingEdge(current_button_state, last_state) == ~current_button_state /\ last_state

\* the signed difference, fabs forgotten
PotIncreased(current, last) == RLt(POT_CHANGE_THRESHOLD, RSub(current, last))

\* line 127: fabs(current_pot_value - last_pot_value) > POT_CHANGE_THRESHOLD
PotChanged(current, last) == RLt(POT_CHANGE_THRESHOLD, fabs(RSub(current, last)))

\* the setpoints and speeds whose float value is below the exact value and
\* whose exact product (x / 20) * 255 is an integer: 85, 119, 170, 238, 75, 150
SingleBelow == {Rat(20, 3), Rat(28, 3), Rat(40, 3), Rat(56, 3), Rat(100, 17), Rat(200, 17)}

\* line 44: the float-to-int conversion of (target_speed / TARGET_SPEED) * 255.
\* Converting +infinity is undefined: the builds saturate to INT_MAX, give the
\* "integer indefinite" INT_MIN, or give 0.
FloatToInt(ts) ==
    IF IsInf(ts) THEN {INT_MAX, INT_MIN, 0}
    ELSE LET exact == (ts.n * MOTOR_MAX_DUTY_CYCLE) \div (ts.d * TARGET_SPEED)
         IN  {IF \E r \in SingleBelow : REq(ts, r) THEN exact - 1 ELSE exact}

\* lines 45-51
ClampDuty(t) ==
    LET hi == IF t > MOTOR_MAX_DUTY_CYCLE THEN MOTOR_MAX_DUTY_CYCLE ELSE t
        lo == IF hi < 0 THEN 0 ELSE hi
    IN  IF lo < 1 THEN 0 ELSE lo

\* the target written at once, without the ramp
SlewJump(current, target) == target

\* the ramp without the two clamps at the target (lines 55 and 58)
SlewNoClamp(current, target) ==
    IF current < target THEN current + duty_cycle_step
    ELSE IF current > target THEN current - duty_cycle_step
    ELSE current

\* lines 53-59
SlewStep(current, target) ==
    IF current < target THEN
        (IF current + duty_cycle_step > target THEN target ELSE current + duty_cycle_step)
    ELSE IF current > target THEN
        (IF current - duty_cycle_step < target THEN target ELSE current - duty_cycle_step)
    ELSE current

\* a drift check that never fires
NoDrift(active, current, last) == FALSE

\* a drift check that fires on any change of the setpoint
AnyPotChange(active, current, last) == active /\ ~REq(current, last)

\* line 127: if (cruise_control_active && fabs(current_pot_value - last_pot_value) > 0.5)
PotDrift(active, current, last) == active /\ PotChanged(current, last)

\* the two sources exchanged
SwappedSource(active, speed_sample, pot_value) ==
    IF active THEN pot_value ELSE speed_sample

\* lines 135-139: the argument of set_motor_speed
CommandSource(active, speed_sample, pot_value) ==
    IF active THEN speed_sample ELSE pot_value

\* the level of a pressed button
PRESSED == FALSE

\* line 108: bool last_button_state = true, the level of a button not pressed
NOT_PRESSED == TRUE

(* ---- initial state: the globals of lines 16-24 and line 108 ---- *)
Init ==
    /\ pc = "init"
    /\ now = 0
    /\ button_level \in BOOLEAN
    /\ pulse_count = 0
    /\ last_pulse_time = 0
    /\ speed = Zero
    /\ cruise_control_active = FALSE
    /\ current_duty_cycle = 0
    /\ last_pot_value = Zero
    /\ last_button_state = NOT_PRESSED
    /\ current_pot_value = Zero
    /\ raw_value = 0
    /\ observed = 0
    /\ target_speed = Zero
    /\ target_duty_cycle = 0
    /\ cycles = 0
    /\ skew = 0
    /\ delivered = 0
    /\ consumed = 0
    /\ speed_samples = 0
    /\ held_samples = 0
    /\ press_toggles = 0
    /\ button_toggles = 0
    /\ last_edge_time = -1
    /\ pending_edges = -1
    /\ commands = 0

(* ---- environment ---- *)

\* lines 27-29, run as an interrupt between any two steps of main()
Pulse(limit) ==
    /\ pc # "init"
    /\ delivered < limit
    /\ pulse_count' = pulse_count + 1
    /\ delivered' = delivered + 1
    /\ UNCHANGED <<pc, now, button_level, last_pulse_time, speed,
                   cruise_control_active, last_pot_value, last_button_state,
                   current_pot_value, raw_value, observed, cycles, skew, consumed,
                   speed_samples>>
    /\ UNCHANGED motor_vars
    /\ UNCHANGED button_hist

sensor_callback == Pulse(MaxPulses)

\* the operator presses or releases the button
ButtonChange ==
    /\ (pending_edges >= 0 /\ button_level) => pending_edges < MaxEdges
    /\ button_level' = ~button_level
    /\ pending_edges' = IF pending_edges >= 0 /\ button_level
                        THEN pending_edges + 1 ELSE pending_edges
    /\ UNCHANGED <<pc, now, pulse_count, last_pulse_time, speed,
                   cruise_control_active, last_pot_value, last_button_state,
                   current_pot_value, raw_value, observed, cycles, skew>>
    /\ UNCHANGED motor_vars
    /\ UNCHANGED <<held_samples, press_toggles, button_toggles, last_edge_time>>
    /\ UNCHANGED pulse_hist

\* the code between two pauses takes time: the millisecond counter advances
Tick ==
    /\ pc # "init"
    /\ skew < MaxSkew
    /\ now' = now + 1
    /\ skew' = skew + 1
    /\ UNCHANGED <<pc, button_level, pulse_count, last_pulse_time, speed,
                   cruise_control_active, last_pot_value, last_button_state,
                   current_pot_value, raw_value, observed, cycles>>
    /\ UNCHANGED motor_vars
    /\ UNCHANGED button_hist
    /\ UNCHANGED pulse_hist

(* ---- main() ---- *)

\* lines 82-108: initialisation; the interrupt is enabled from line 87 on
Boot ==
    /\ pc = "init"
    /\ \E d \in BootDelays : now' = now + d
    /\ pc' = "calc"
    /\ UNCHANGED <<button_level, pulse_count, last_pulse_time, speed,
                   cruise_control_active, last_pot_value, last_button_state,
                   current_pot_value, raw_value, observed, cycles, skew>>
    /\ UNCHANGED motor_vars
    /\ UNCHANGED button_hist
    /\ UNCHANGED pulse_hist

\* line 110 and line 32: a new iteration starts, calculate_speed reads pulse_count
StartCycle(limit) ==
    /\ pc = "calc"
    /\ cycles < limit
    /\ cycles' = cycles + 1
    /\ observed' = pulse_count
    /\ pc' = IF ThresholdMet(pulse_count) THEN "calc_compute" ELSE "button"
    /\ UNCHANGED <<now, button_level, pulse_count, last_pulse_time, speed,
                   cruise_control_active, last_pot_value, last_button_state,
                   current_pot_value, raw_value, skew>>
    /\ UNCHANGED motor_vars
    /\ UNCHANGED button_hist
    /\ UNCHANGED pulse_hist

CalcCheck == StartCycle(MaxCycles)

\* lines 33-36
CalcCompute ==
    /\ pc = "calc_compute"
    /\ LET current_time == now
           time_per_rev == TimePerRev(current_time, last_pulse_time)
       IN  /\ speed' = Rpm(time_per_rev)
           /\ last_pulse_time' = current_time
    /\ speed_samples' = speed_samples + 1
    /\ pc' = "calc_reset"
    /\ UNCHANGED <<now, button_level, pulse_count, cruise_control_active,
                   last_pot_value, last_button_state, current_pot_value,
                   raw_value, observed, cycles, skew, delivered, consumed>>
    /\ UNCHANGED motor_vars
    /\ UNCHANGED button_hist

\* lines 37-39
CalcReset ==
    /\ pc = "calc_reset"
    /\ pulse_count' = 0
    /\ consumed' = consumed + observed
    /\ now' = sleep_ms(now, CALC_PAUSE_MS)
    /\ pc' = "button"
    /\ UNCHANGED <<button_level, last_pulse_time, speed, cruise_control_active,
                   last_pot_value, last_button_state, current_pot_value,
                   raw_value, observed, cycles, skew, delivered, speed_samples>>
    /\ UNCHANGED motor_vars
    /\ UNCHANGED button_hist

\* lines 115-121
Button ==
    /\ pc = "button"
    /\ LET current_button_state == button_level
           edge == FallingEdge(current_button_state, last_button_state)
       IN  /\ cruise_control_active' =
                  IF edge THEN ~cruise_control_active ELSE cruise_control_active
           /\ now' = IF edge THEN sleep_ms(now, DEBOUNCE_MS) ELSE now
           /\ last_button_state' = current_button_state
           /\ held_samples' = IF current_button_state THEN 0 ELSE held_samples + 1
           /\ press_toggles' = IF current_button_state THEN 0
                               ELSE press_toggles + (IF edge THEN 1 ELSE 0)
           /\ button_toggles' = button_toggles + (IF edge THEN 1 ELSE 0)
           /\ last_edge_time' = IF edge THEN now ELSE last_edge_time
           /\ pending_edges' = IF pending_edges >= 0 THEN 0 ELSE pending_edges
    /\ pc' = "pot"
    /\ UNCHANGED <<button_level, pulse_count, last_pulse_time, speed,
                   last_pot_value, current_pot_value, raw_value, observed, cycles, skew>>
    /\ UNCHANGED motor_vars
    /\ UNCHANGED pulse_hist

\* line 124 with lines 66-79: adc_read() returns a sample of the set samples
ReadPotFrom(samples) ==
    /\ pc = "pot"
    /\ \E raw \in samples :
           /\ raw_value' = raw
           /\ current_pot_value' = read_potentiometer(raw)
    /\ now' = sleep_ms(now, POT_PAUSE_MS)
    /\ pc' = "drift"
    /\ UNCHANGED <<button_level, pulse_count, last_pulse_time, speed,
                   cruise_control_active, last_pot_value, last_button_state,
                   observed, cycles, skew>>
    /\ UNCHANGED motor_vars
    /\ UNCHANGED button_hist
    /\ UNCHANGED pulse_hist

ReadPot == ReadPotFrom(RawSamples)

\* lines 127-131
Drift ==
    /\ pc = "drift"
    /\ IF PotDrift(cruise_control_active, current_pot_value, last_pot_value)
       THEN /\ cruise_control_active' = FALSE
            /\ now' = sleep_ms(now, DRIFT_PAUSE_MS)
       ELSE UNCHANGED <<cruise_control_active, now>>
    /\ pc' = "motor"
    /\ UNCHANGED <<button_level, pulse_count, last_pulse_time, speed,
                   last_pot_value, last_button_state, current_pot_value,
                   raw_value, observed, cycles, skew>>
    /\ UNCHANGED motor_vars
    /\ UNCHANGED button_hist
    /\ UNCHANGED pulse_hist

\* lines 43-64, called with the argument input
set_motor_speed(input) ==
    /\ target_speed' = input
    /\ commands' = commands + 1
    /\ \E converted \in FloatToInt(input) :
           /\ target_duty_cycle' = ClampDuty(converted)
           /\ current_duty_cycle' = SlewStep(current_duty_cycle, ClampDuty(converted))

\* lines 132-141
Motor ==
    /\ pc = "motor"
    /\ last_pot_value' = current_pot_value
    /\ set_motor_speed(CommandSource(cruise_control_active, speed, current_pot_value))
    /\ now' = sleep_ms(sleep_ms(now, MOTOR_PAUSE_MS), LOOP_PAUSE_MS)
    /\ pc' = "calc"
    /\ UNCHANGED <<button_level, pulse_count, last_pulse_time, speed,
                   cruise_control_active, last_button_state, current_pot_value,
                   raw_value, observed, cycles, skew>>
    /\ UNCHANGED button_hist
    /\ UNCHANGED pulse_hist

Next ==
    \/ sensor_callback
    \/ ButtonChange
    \/ Tick
    \/ Boot
    \/ CalcCheck
    \/ CalcCompute
    \/ CalcReset
    \/ Button
    \/ ReadPot
    \/ Drift
    \/ Motor

Spec == Init /\ [][Next]_vars

(* ---- the control loop with the pin traced: every falling edge counted ---- *)

InitButton ==
    /\ pc = "init"
    /\ now = 0
    /\ button_level \in BOOLEAN
    /\ pulse_count = 0
    /\ last_pulse_time = 0
    /\ speed = Zero
    /\ cruise_control_active = FALSE
    /\ current_duty_cycle = 0
    /\ last_pot_value = Zero
    /\ last_button_state = NOT_PRESSED
    /\ current_pot_value = Zero
    /\ raw_value = 0
    /\ observed = 0
    /\ target_speed = Zero
    /\ target_duty_cycle = 0
    /\ cycles = 0
    /\ skew = 0
    /\ delivered = 0
    /\ consumed = 0
    /\ speed_samples = 0
    /\ held_samples = 0
    /\ press_toggles = 0
    /\ button_toggles = 0
    /\ last_edge_time = -1
    /\ pending_edges = 0
    /\ commands = 0

SpecButton == InitButton /\ [][Next]_vars

(* ---- the control loop up to the second speed sample ---- *)

NextSamples ==
    \/ Pulse(SamplePulses)
    \/ ButtonChange
    \/ Tick
    \/ Boot
    \/ StartCycle(SampleCycles)
    \/ CalcCompute
    \/ CalcReset
    \/ Button
    \/ ReadPot
    \/ Drift
    \/ Motor

SpecSamples == Init /\ [][NextSamples]_vars

(* ---- the motor command alone: set_motor_speed from every duty level ---- *)

\* every level 0..255 is a target of some raw sample and is reached by the ramp
InitMotor ==
    /\ pc = "motor"
    /\ now = 0
    /\ button_level = TRUE
    /\ pulse_count = 0
    /\ last_pulse_time = 0
    /\ speed \in {Rpm(TimePerRev(e, 0)) : e \in ElapsedSamples}
    /\ cruise_control_active \in BOOLEAN
    /\ current_duty_cycle \in 0..MOTOR_MAX_DUTY_CYCLE
    /\ last_pot_value = Zero
    /\ last_button_state = TRUE
    /\ \E raw \in MotorRawSamples :
           /\ raw_value = raw
           /\ current_pot_value = read_potentiometer(raw)
    /\ observed = 0
    /\ target_speed = Zero
    /\ target_duty_cycle = 0
    /\ cycles = 1
    /\ skew = 0
    /\ delivered = 0
    /\ consumed = 0
    /\ speed_samples = 0
    /\ held_samples = 0
    /\ press_toggles = 0
    /\ button_toggles = 0
    /\ last_edge_time = -1
    /\ pending_edges = -1
    /\ commands = 0

NextMotor == Motor

SpecMotor == InitMotor /\ [][NextMotor]_vars

(* ---- the potentiometer reader alone: every raw sample of the ADC ---- *)

\* main() at line 124 of its first iteration, the button released
InitPot ==
    /\ pc = "pot"
    /\ now = 0
    /\ button_level = TRUE
    /\ pulse_count = 0
    /\ last_pulse_time = 0
    /\ speed = Zero
    /\ cruise_control_active = FALSE
    /\ current_duty_cycle = 0
    /\ last_pot_value = Zero
    /\ last_button_state = TRUE
    /\ current_pot_value = Zero
    /\ raw_value = 0
    /\ observed = 0
    /\ target_speed = Zero
    /\ target_duty_cycle = 0
    /\ cycles = 1
    /\ skew = 0
    /\ delivered = 0
    /\ consumed = 0
    /\ speed_samples = 0
    /\ held_samples = 0
    /\ press_toggles = 0
    /\ button_toggles = 0
    /\ last_edge_time = -1
    /\ pending_edges = -1
    /\ commands = 0

NextPot == ReadPotFrom(0..ADC_FULL_SCALE)

SpecPot == InitPot /\ [][NextPot]_vars

(* ======================= claims ======================= *)

\* C1: no pulse is lost: the calls of sensor_callback equal the pulses the
\* estimator read and reset plus the pulses still in pulse_count.
C1_NoPulseLost == delivered = consumed + pulse_count

\* C2: current_duty_cycle stays within 0..MOTOR_MAX_DUTY_CYCLE, and a call of
\* set_motor_speed changes it by at most duty_cycle_step.
C2_DutyBoundedAndSlewed ==
    /\ [](current_duty_cycle \in 0..255)
    /\ [][Abs(current_duty_cycle' - current_duty_cycle) <= 20]_vars

\* C2 witness: the command ran with an input above TARGET_SPEED and the duty
\* sits at the maximum.
C2_Witness ==
    /\ pc = "calc"
    /\ RLt(Rat(20, 1), target_speed)
    /\ target_duty_cycle = 255
    /\ current_duty_cycle = 255

\* C3 as stated: cruise becomes Engaged only in a cycle whose sample is pressed
\* while the sample of the previous cycle was released (so not in the first
\* cycle, which has no previous sample).
C3_EngageOnlyAfterSampledRelease ==
    [][(~cruise_control_active /\ cruise_control_active')
          => (pc = "button" /\ ~button_level /\ last_button_state /\ cycles > 1)]_vars

\* C3 amended: cruise becomes Engaged only in the button step of a cycle whose
\* sample is pressed while last_button_state (the previous sample, or its
\* initial value "released" in the first cycle) is released; never on a rising
\* edge, while held, or in the potentiometer steps.
C3_EngageOnlyOnFallingEdge ==
    [][(~cruise_control_active /\ cruise_control_active')
          => (pc = "button" /\ ~button_level /\ last_button_state
              /\ ~last_button_state')]_vars

\* C3 witness: cruise engaged by the single toggle of a press first sampled in
\* a cycle after the first.
C3_Witness ==
    /\ pc = "pot"
    /\ cycles >= 2
    /\ held_samples = 1
    /\ button_toggles = 1
    /\ cruise_control_active

\* the setpoints a and b differ by more than 0.5
ExceedsHalf(a, b) == 2 * Abs(a.n * b.d - b.n * a.d) > a.d * b.d

\* C4: when the setpoint of this cycle differs from that of the previous cycle
\* by more than 0.5, cruise is Disengaged when the motor command is generated.
C4_DriftDisengages ==
    (pc = "motor" /\ ExceedsHalf(current_pot_value, last_pot_value))
        => ~cruise_control_active

\* C4 witness: the one button toggle engaged cruise in an earlier cycle, the
\* button is still held, the setpoint jumped, and cruise is Disengaged at the
\* motor command.
C4_Witness ==
    /\ pc = "motor"
    /\ cycles >= 2
    /\ held_samples >= 2
    /\ ExceedsHalf(current_pot_value, last_pot_value)
    /\ button_toggles = 1
    /\ ~cruise_control_active

\* C5: during one press (any number of consecutive pressed samples) the button
\* step has toggled the flag exactly once.
C5_OneTogglePerPress == held_samples >= 1 => press_toggles = 1

\* C5 witness: the button sampled pressed in three consecutive cycles.
C5_Witness == held_samples >= 3 /\ press_toggles = 1

\* C6: an edge is accepted at least 200 ms after the previous accepted edge.
C6_Debounce ==
    [][(button_toggles' # button_toggles /\ last_edge_time >= 0)
          => now - last_edge_time >= 200]_vars

\* C6 witness: two edges were accepted.
C6_Witness == button_toggles >= 2 /\ last_edge_time >= 200

\* C7: calculate_speed with pulse_count < 3 returns and leaves speed,
\* last_pulse_time and pulse_count as they were.
C7_BelowThresholdNoChange ==
    [][(pc = "calc" /\ pc' # "calc" /\ pulse_count < 3)
          => (pc' = "button" /\ speed' = speed
              /\ last_pulse_time' = last_pulse_time
              /\ pulse_count' = pulse_count)]_vars

\* C7 witness: after a first sample, a later call found one or two pulses and
\* the sample is the one computed before.
C7_Witness ==
    /\ pc = "button"
    /\ consumed >= 3
    /\ observed \in 1..2
    /\ cycles >= 2
    /\ ~REq(speed, Zero)

\* C8: with pulse_count >= 3 calculate_speed computes; for a positive elapsed
\* time the speed is 60000 / elapsed_ms (1500 ms gives 40), the timestamp
\* becomes the current time, and the accumulator is reset to 0.
C8_SpeedFromElapsed ==
    /\ [][(pc = "calc" /\ pc' # "calc" /\ pulse_count >= 3)
             => pc' = "calc_compute"]_vars
    /\ [][(pc = "calc_compute" /\ pc' # "calc_compute" /\ now > last_pulse_time)
             => (/\ speed'.d > 0
                 /\ speed'.n * (now - last_pulse_time) = 60000 * speed'.d
                 /\ last_pulse_time' = now
                 /\ pc' = "calc_reset")]_vars
    /\ [][(pc = "calc_reset" /\ pc' # "calc_reset")
             => (pulse_count' = 0 /\ pc' = "button")]_vars

\* C8 witness: three pulses over 1500 ms, the estimator reports 40 RPM.
C8_Witness ==
    /\ pc = "button"
    /\ consumed = 3
    /\ last_pulse_time = 1500
    /\ pulse_count = 0
    /\ speed.d > 0
    /\ speed.n = 40 * speed.d

\* C9: the quotient of a zero elapsed time is neither stored as the speed
\* sample nor passed to set_motor_speed.
C9_NoDegenerateSample == ~IsInf(speed) /\ ~IsInf(target_speed)

\* C10: read_potentiometer returns 0 when raw * 20 / 4095 is below 0.2 and the
\* scaled value otherwise; the result is within [0, 20] and never strictly
\* between 0 and 0.2.
C10_DeadZone ==
    pc = "drift" =>
        /\ current_pot_value.d > 0
        /\ (5 * 20 * raw_value < 4095) => current_pot_value.n = 0
        /\ (5 * 20 * raw_value >= 4095)
               => current_pot_value.n * 4095 = 20 * raw_value * current_pot_value.d
        /\ current_pot_value.n >= 0
        /\ current_pot_value.n <= 20 * current_pot_value.d
        /\ ~(current_pot_value.n > 0 /\ 5 * current_pot_value.n < current_pot_value.d)

\* C10 witness: the largest raw sample inside the dead zone was read as 0.
C10_Witness == pc = "drift" /\ raw_value = 40 /\ current_pot_value.n = 0

\* C11: a call of set_motor_speed leaves the duty between its old value and the
\* target, and the distance to the target shrinks by 20 or to 0; hence with a
\* constant target the duty arrives after ceil(distance / 20) calls and stays.
C11_MonotonicApproach ==
    [][(pc = "motor" /\ pc' = "calc") =>
          LET target == target_duty_cycle'
              old == current_duty_cycle
              new == current_duty_cycle'
              left == IF Abs(old - target) > 20 THEN Abs(old - target) - 20 ELSE 0
          IN  /\ (old <= target => (old <= new /\ new <= target))
              /\ (old >= target => (target <= new /\ new <= old))
              /\ Abs(new - target) = left]_vars

\* C11 witness: an input worth 0.4 duty units has the target 0 and the duty
\* came down from 255 by one step.
C11_Witness ==
    /\ pc = "calc"
    /\ target_speed.n * 255 * 5 = 2 * 20 * target_speed.d
    /\ target_duty_cycle = 0
    /\ current_duty_cycle = 235
\* C12: every falling edge of the pin gives exactly one toggle: when line 115
\* samples the pin in the second or a later iteration, the toggles of that
\* sample equal the falling edges the pin made since the previous sample.
C12_OneTogglePerFallingEdge ==
    [][(pc = "button" /\ pc' = "pot" /\ cycles > 1 /\ pending_edges > 0) =>
          button_toggles' = button_toggles + pending_edges]_vars

\* C13: every iteration generates exactly one motor command, as its last step:
\* the calls of set_motor_speed equal the iterations completed.  After the call
\* its argument is the last speed sample if the flag left by the button and
\* drift steps of that iteration is Engaged, and the setpoint read in that
\* iteration if it is Disengaged.
C13_CommandSource ==
    /\ commands = (IF pc \in {"init", "calc"} THEN cycles ELSE cycles - 1)
    /\ (pc = "calc" /\ commands > 0) =>
           target_speed = (IF cruise_control_active THEN speed ELSE current_pot_value)

C13_Witness ==
    /\ pc = "calc"
    /\ commands = 2
    /\ cruise_control_active
    /\ consumed > 0
    /\ ~IsInf(speed)
    /\ ~REq(speed, current_pot_value)
    /\ target_speed = speed

\* C14: the button toggle of line 117 comes before the drift check of line
\* 127: in an iteration whose sample is a falling edge (first pressed sample,
\* toggled) and whose setpoint differs from the previous one by more than 0.5,
\* the flag is Disengaged when the motor command is generated, so a session
\* engaged by that edge is ended in the same iteration, and the command is
\* computed from the setpoint.
C14_ButtonThenDrift ==
    [][(/\ pc = "motor" /\ pc' = "calc"
        /\ held_samples = 1 /\ press_toggles = 1
        /\ ExceedsHalf(current_pot_value, last_pot_value)) =>
          (/\ ~cruise_control_active
           /\ ~cruise_control_active'
           /\ target_speed' = current_pot_value)]_vars

C14_Witness ==
    /\ pc = "motor"
    /\ cycles = 2
    /\ held_samples = 1
    /\ press_toggles = 1
    /\ button_toggles = 1
    /\ ExceedsHalf(current_pot_value, last_pot_value)
    /\ ~cruise_control_active

\* C15: a speed sample is computed over exactly one revolution: when
\* calculate_speed goes on to compute (lines 33-36), the counter it read at
\* line 32 holds PULSES_PER_REV pulses, never more.
C15_ExactlyOneRevolution ==
    pc \in {"calc_compute", "calc_reset"} => observed = PULSES_PER_REV

\* the duty level the mapping promises for the input x: 255 from TARGET_SPEED
\* up, 0 below one duty unit, else the truncation of (x / 20) * 255
PromisedDuty(x) ==
    IF IsInf(x) \/ ~RLt(x, Rat(TARGET_SPEED, 1)) THEN MOTOR_MAX_DUTY_CYCLE
    ELSE IF x.n < 0 THEN 0
    ELSE LET exact == (x.n * MOTOR_MAX_DUTY_CYCLE) \div (x.d * TARGET_SPEED)
         IN  IF \E r \in SingleBelow : REq(x, r) THEN exact - 1 ELSE exact

\* C16: after a call of set_motor_speed the target duty is the truncation of
\* (input / TARGET_SPEED) * 255 clamped to 0..255, for every input: 255 for
\* every input at or above TARGET_SPEED.
C16_TargetDutyMapping ==
    (pc = "calc" /\ commands > 0) => target_duty_cycle = PromisedDuty(target_speed)

\* C17: an iteration lasts the pacing delay of line 141 and nothing else: of
\* the steps of the loop only the one that closes the iteration advances the
\* clock, by LOOP_PAUSE_MS; the estimator, the button handling, the
\* potentiometer read and the drift handling add no delay, so two consecutive
\* iterations start LOOP_PAUSE_MS apart (execution time aside).
C17_CyclePacing ==
    [][(pc # "init" /\ pc' # pc) =>
          now' - now = (IF pc' = "calc" THEN LOOP_PAUSE_MS ELSE 0)]_vars

\* C18: drift is measured from one iteration to the next: every iteration
\* stores its setpoint in last_pot_value whatever the flag is, and the flag
\* goes from Engaged to Disengaged only by a falling edge at line 116 or by a
\* setpoint more than 0.5 away from the one of the previous iteration, never
\* because of the distance covered since cruise was engaged.
C18_DriftCycleToCycle ==
    [][/\ (pc = "motor" /\ pc' = "calc") => last_pot_value' = current_pot_value
       /\ (cruise_control_active /\ ~cruise_control_active') =>
              \/ pc = "button" /\ ~button_level /\ last_button_state
              \/ pc = "drift" /\ ExceedsHalf(current_pot_value, last_pot_value)]_vars

\* engaged in the first iteration with last_pot_value = 0 and still engaged in
\* the third with a setpoint above 0.5, reached in steps of at most 0.5
C18_Witness ==
    /\ pc = "motor"
    /\ cycles = 3
    /\ held_samples = 3
    /\ button_toggles = 1
    /\ cruise_control_active
    /\ ExceedsHalf(current_pot_value, Zero)
    /\ ~ExceedsHalf(current_pot_value, last_pot_value)

\* the pauses of an iteration that computes a sample: lines 39, 77, 63, 141
SAMPLE_GAP_MS == CALC_PAUSE_MS + POT_PAUSE_MS + MOTOR_PAUSE_MS + LOOP_PAUSE_MS

C20_FirstSample ==
    /\ (cycles = 0 \/ (cycles = 1 /\ pc \in {"calc_compute", "calc_reset", "button"})) =>
           (~cruise_control_active /\ last_button_state = TRUE)
    /\ (cycles = 1 /\ pc = "pot") => (cruise_control_active <=> ~last_button_state)
    /\ button_toggles = 0 => ~cruise_control_active

\* the button held down during boot: Engaged after the first sample
C20_Witness ==
    /\ cycles = 1
    /\ pc = "pot"
    /\ ~last_button_state
    /\ held_samples = 1
    /\ button_toggles = 1
    /\ cruise_control_active

====
